---- MODULE Spec2Model ----
(***************************************************************************)
(* Model of the Minesweeper core of src/minesweeper.ts: Cell, GameBoard.   *)
(* A board is a grid of cells (isMine, adjacentMines, state); the random   *)
(* mine placement of the first revealCell is a nondeterministic choice of  *)
(* the set of cells the placement loop ends up mining.                     *)
(***************************************************************************)
EXTENDS Integers, Sequences, FiniteSets, TLC

\* ------------------------------------------------------------------ bounds

\* Largest board the model constructs: rows * cols <= MaxCells.
MaxCells == 4

\* Largest mine count the model configures.
MaxMines == 2

\* Most cells the caller keeps flagged at one time.
MaxFlags == 2

\* Most right clicks on Revealed cells the player makes in one game.
MaxStrayClicks == 1

\* Largest number of seconds the timer is followed to.
MaxTime == 1

\* ------------------------------------------------------------------ state

VARIABLES
    rows,          \* GameBoard.rows
    cols,          \* GameBoard.cols
    totalMines,    \* GameBoard.totalMines
    cells,         \* GameBoard.cells: position -> [isMine, adjacentMines, state]
    isFirstClick,  \* GameBoard.isFirstClick
    hung,          \* TRUE once a call entered a placement loop that cannot end
    last,          \* the last call made on the board and what it returned
    status,        \* GameController.gameState.status
    timeElapsed,   \* GameController.gameState.timeElapsed
    flagsPlaced,   \* GameController.gameState.flagsPlaced
    remainingMines,\* GameController.gameState.remainingMines
    timer,         \* GameController.timer: "null" or the handle of an interval
    intervals,     \* the number of intervals set and not cleared
    hiddenClicks,  \* history: the left clicks on Hidden cells of the current game
    minasColocadas,\* placeMines' counter, while its loop is followed pick by pick
    pc             \* where that call of placeMines is: "idle", "loop" or "done"

boardVars == <<rows, cols, totalMines, cells, isFirstClick, hung>>
ctrlVars == <<status, timeElapsed, flagsPlaced, remainingMines, timer, intervals,
              hiddenClicks>>
loopVars == <<minasColocadas, pc>>
vars == <<rows, cols, totalMines, cells, isFirstClick, hung, last,
          status, timeElapsed, flagsPlaced, remainingMines, timer, intervals,
          hiddenClicks, minasColocadas, pc>>

\* enum GameStatus
NotStarted == "NotStarted"
InProgress == "InProgress"
Won == "Won"
Lost == "Lost"

\* enum GameDifficulty
Beginner == 0
Intermediate == 1
Expert == 2

\* enum CellState
Hidden == "Hidden"
Revealed == "Revealed"
Flagged == "Flagged"
CellState == {Hidden, Revealed, Flagged}

Max(a, b) == IF a >= b THEN a ELSE b
Min(a, b) == IF a <= b THEN a ELSE b

\* The positions of a board of r rows and c columns, <<row, col>>, zero-based.
PositionsOf(r, c) == (0 .. r - 1) \X (0 .. c - 1)
Positions == PositionsOf(rows, cols)

\* The configurations the model constructs and resets boards with:
\* 0 <= mines < rows * cols.
Configs ==
    { cfg \in [rows : 1 .. MaxCells, cols : 1 .. MaxCells, mines : 0 .. MaxMines] :
        /\ cfg.rows * cfg.cols <= MaxCells
        /\ cfg.mines < cfg.rows * cfg.cols }

\* ------------------------------------------------------------------- Cell

\* new Cell(position): no mine, adjacentMines 0, Hidden.
NewCell == [isMine |-> FALSE, adjacentMines |-> 0, state |-> Hidden]

\* Variant of Cell.reveal() without the test for a flag.
Cell_revealAlways(cell) == [cell EXCEPT !.state = Revealed]

\* Cell.reveal(): the cell after the call.
Cell_reveal(cell) ==
    IF cell.state = Flagged THEN cell ELSE [cell EXCEPT !.state = Revealed]

\* Variant of the value returned: false for a cell already Revealed.
Cell_revealResultWhenHidden(cell) == cell.state = Hidden

\* Cell.reveal(): the value returned.
Cell_revealResult(cell) == cell.state # Flagged

\* Variant of Cell.toggleFlag() without the test for a revealed cell.
Cell_toggleFlagAlways(cell) ==
    [cell EXCEPT !.state = IF cell.state = Hidden THEN Flagged ELSE Hidden]

\* Cell.toggleFlag(): the cell after the call (its state is the value returned).
Cell_toggleFlag(cell) ==
    IF cell.state = Revealed THEN cell
    ELSE [cell EXCEPT !.state = IF cell.state = Hidden THEN Flagged ELSE Hidden]

\* Cell.reset()
Cell_reset(cell) ==
    [cell EXCEPT !.state = Hidden, !.isMine = FALSE, !.adjacentMines = 0]

\* Cell.setMine(value)
Cell_setMine(cell, value) == [cell EXCEPT !.isMine = value]

\* Cell.setAdjacentMines(count)
Cell_setAdjacentMines(cell, count) == [cell EXCEPT !.adjacentMines = count]

\* -------------------------------------------------------------- GameBoard

\* GameBoard.initializeBoard(): r x c fresh cells.
initializeBoard(r, c) == [p \in PositionsOf(r, c) |-> NewCell]

\* Variant of the window whose rows and columns wrap around the edges.
LoopWindowWrapping(row, col) ==
    LET all == [k \in 1 .. 9 |->
                   <<(row - 1 + ((k - 1) \div 3)) % rows,
                     (col - 1 + ((k - 1) % 3)) % cols>>]
    IN  SelectSeq(all, LAMBDA q : q # <<row, col>>)

\* The positions the two nested loops
\*   for r = max(0,row-1) .. min(rows-1,row+1), for c = max(0,col-1) .. min(cols-1,col+1)
\* visit, in loop order, the centre skipped.
LoopWindow(row, col) ==
    LET rlo == Max(0, row - 1)
        rhi == Min(rows - 1, row + 1)
        clo == Max(0, col - 1)
        chi == Min(cols - 1, col + 1)
        nc  == chi - clo + 1
        nr  == rhi - rlo + 1
        all == [k \in 1 .. nr * nc |-> <<rlo + ((k - 1) \div nc), clo + ((k - 1) % nc)>>]
    IN  SelectSeq(all, LAMBDA q : q # <<row, col>>)

\* Variant of the window without the diagonal neighbours.
WindowOrthogonal(row, col) ==
    SelectSeq(LoopWindow(row, col), LAMBDA q : q[1] = row \/ q[2] = col)

\* Variant of countAdjacentMines' window: the diagonals are not counted.
CountWindowOrthogonal(row, col) == WindowOrthogonal(row, col)

\* The cells countAdjacentMines inspects.
CountWindow(row, col) == LoopWindow(row, col)

\* GameBoard.countAdjacentMines(row, col) on the grid cs.
RECURSIVE CountMinesIn(_, _)
CountMinesIn(cs, window) ==
    IF window = <<>> THEN 0
    ELSE (IF cs[Head(window)].isMine THEN 1 ELSE 0) + CountMinesIn(cs, Tail(window))

countAdjacentMines(cs, row, col) == CountMinesIn(cs, CountWindow(row, col))

\* GameBoard.calculateAdjacentMines(): every cell without a mine gets its count.
calculateAdjacentMines(cs) ==
    [p \in DOMAIN cs |->
        IF ~cs[p].isMine
        THEN Cell_setAdjacentMines(cs[p], countAdjacentMines(cs, p[1], p[2]))
        ELSE cs[p]]

\* Variant of the pick's test without the comparison with safePosition.
PickableAnywhere(cs, safePosition) == {p \in DOMAIN cs : ~cs[p].isMine}

\* The cells a pick of the placement loop turns into a mine: not the safe
\* position, not already a mine.
Pickable(cs, safePosition) ==
    {p \in DOMAIN cs : p # safePosition /\ ~cs[p].isMine}

\* Variant of the loop's outcomes when a pick of a cell already mined is
\* accepted and counted again: fewer than totalMines cells can end up mined.
PlacementOutcomesRecount(cs, safePosition) ==
    {S \in SUBSET {p \in DOMAIN cs : p # safePosition} :
        /\ Cardinality(S) <= totalMines
        /\ totalMines > 0 => S # {}}

\* The sets of cells the placement loop can have mined when it ends: the loop
\* counts one mine per accepted pick and stops at totalMines. Empty when the
\* loop cannot end (fewer pickable cells than totalMines).
PlacementOutcomes(cs, safePosition) ==
    {S \in SUBSET Pickable(cs, safePosition) : Cardinality(S) = totalMines}

\* GameBoard.placeMines(safePosition) when the loop mined the cells of S.
placeMines(cs, S) ==
    calculateAdjacentMines([p \in DOMAIN cs |->
        IF p \in S THEN Cell_setMine(cs[p], TRUE) ELSE cs[p]])

\* Variant of the entry test that lets a flagged cell through.
SkipsRevealedOnly(cell) == cell.state = Revealed

\* revealCellRecursive's test at its entry: leave the cell alone.
SkipsCell(cell) == cell.state # Hidden

\* Variant of the test that visits the neighbours of every cell revealed.
ExpandsFromAnyCell(cell) == TRUE

\* revealCellRecursive's test for visiting the neighbours.
ExpandsFrom(cell) == cell.adjacentMines = 0

\* Variant of the recursion whose outer loop runs over the columns.
RevealWindowColumnFirst(row, col) ==
    LET window == LoopWindow(row, col)
        before(a, b) == a[2] < b[2] \/ (a[2] = b[2] /\ a[1] < b[1])
        rank(q) == Cardinality({i \in 1 .. Len(window) : before(window[i], q)})
    IN  [k \in 1 .. Len(window) |->
            CHOOSE q \in {window[i] : i \in 1 .. Len(window)} : rank(q) = k - 1]

\* Variant of the recursion that skips the diagonal neighbours.
RevealWindowOrthogonal(row, col) == WindowOrthogonal(row, col)

\* The neighbours revealCellRecursive recurses into, in order.
RevealWindow(row, col) == LoopWindow(row, col)

\* Variant of the push that puts the position in front.
CollectedInFront(revealedCells, p) == <<p>> \o revealedCells

\* revealedCells.push({ row, col })
Collected(revealedCells, p) == Append(revealedCells, p)

\* The start of a flood fill on the grid cs: nothing collected, no call of
\* revealCellRecursive active.
FloodStart(cs) == [cells |-> cs, revealedCells |-> <<>>, depth |-> 0, maxDepth |-> 0]

\* GameBoard.revealCellRecursive(row, col, revealedCells): acc is the grid,
\* the revealedCells array, the number of calls of revealCellRecursive active
\* (depth) and the largest number there was (maxDepth); the result is acc
\* after the call.
RECURSIVE revealCellRecursive(_, _, _), revealEach(_, _)
revealCellRecursive(acc, row, col) ==
    LET p == <<row, col>>
        entered == [acc EXCEPT !.depth = acc.depth + 1,
                               !.maxDepth = Max(acc.maxDepth, acc.depth + 1)]
    IN  IF SkipsCell(acc.cells[p]) THEN [entered EXCEPT !.depth = acc.depth]
        ELSE LET acc1 == [entered EXCEPT
                             !.cells = [acc.cells EXCEPT ![p] = Cell_reveal(@)],
                             !.revealedCells = Collected(acc.revealedCells, p)]
                 acc2 == IF ExpandsFrom(acc1.cells[p])
                         THEN revealEach(acc1, RevealWindow(row, col))
                         ELSE acc1
             IN  [acc2 EXCEPT !.depth = acc.depth]

revealEach(acc, window) ==
    IF window = <<>> THEN acc
    ELSE revealEach(revealCellRecursive(acc, Head(window)[1], Head(window)[2]),
                    Tail(window))

\* Variant of revealCell's test that lets a flagged target through.
TargetRevealedOnly(cell) == cell.state = Revealed

\* revealCell's test after placement: the call does nothing.
TargetNotHidden(cell) == cell.state # Hidden

\* Variant of revealCell without the branch for a mine: the flood fill starts
\* at the mine.
revealPlacedNoMineBranch(cs, position) ==
    LET cell == cs[position] IN
    IF TargetNotHidden(cell)
    THEN [cells |-> cs, success |-> FALSE, hitMine |-> FALSE, cellsRevealed |-> <<>>,
          depth |-> 0]
    ELSE LET acc == revealCellRecursive(FloodStart(cs), position[1], position[2])
         IN  [cells |-> acc.cells, success |-> TRUE, hitMine |-> cell.isMine,
              cellsRevealed |-> acc.revealedCells, depth |-> acc.maxDepth]

\* A mine of the grid cs is Revealed.
MineRevealed(cs) == \E p \in DOMAIN cs : cs[p].isMine /\ cs[p].state = Revealed

\* Variant of revealCell that does nothing once a mine is Revealed.
revealPlacedUntilMineHit(cs, position) ==
    LET cell == cs[position] IN
    IF TargetNotHidden(cell) \/ MineRevealed(cs)
    THEN [cells |-> cs, success |-> FALSE, hitMine |-> FALSE, cellsRevealed |-> <<>>,
          depth |-> 0]
    ELSE IF cell.isMine
    THEN [cells |-> [cs EXCEPT ![position] = Cell_reveal(@)],
          success |-> TRUE, hitMine |-> TRUE, cellsRevealed |-> <<position>>,
          depth |-> 0]
    ELSE LET acc == revealCellRecursive(FloodStart(cs), position[1], position[2])
         IN  [cells |-> acc.cells, success |-> TRUE, hitMine |-> FALSE,
              cellsRevealed |-> acc.revealedCells, depth |-> acc.maxDepth]

\* GameBoard.revealCell(position) on a grid cs whose mines are placed: the
\* grid after the call, the RevealResult and the deepest nesting of
\* revealCellRecursive calls there was.
revealPlaced(cs, position) ==
    LET cell == cs[position] IN
    IF TargetNotHidden(cell)
    THEN [cells |-> cs, success |-> FALSE, hitMine |-> FALSE, cellsRevealed |-> <<>>,
          depth |-> 0]
    ELSE IF cell.isMine
    THEN [cells |-> [cs EXCEPT ![position] = Cell_reveal(@)],
          success |-> TRUE, hitMine |-> TRUE, cellsRevealed |-> <<position>>,
          depth |-> 0]
    ELSE LET acc == revealCellRecursive(FloodStart(cs), position[1], position[2])
         IN  [cells |-> acc.cells, success |-> TRUE, hitMine |-> FALSE,
              cellsRevealed |-> acc.revealedCells, depth |-> acc.maxDepth]

\* Variant of revealCell's first-click test that is true at every call.
PlacesMinesAtEveryCall(cs, position) == TRUE

\* Variant of revealCell's first-click test made after the test of the
\* target's state: a first click on a cell that is not Hidden places no mine.
PlacesMinesIfHidden(cs, position) == isFirstClick /\ cs[position].state = Hidden

\* revealCell's first-click test, made before the target is looked at.
PlacesMines(cs, position) == isFirstClick

\* GameBoard.toggleFlag(position): the grid after the call.
toggleFlag(cs, position) == [cs EXCEPT ![position] = Cell_toggleFlag(@)]

\* Variant of the value returned: true whenever the cell is not Hidden.
toggleFlagResultNotHidden(cs, position) ==
    Cell_toggleFlag(cs[position]).state # Hidden

\* GameBoard.toggleFlag(position): the value returned.
toggleFlagResult(cs, position) == Cell_toggleFlag(cs[position]).state = Flagged

\* The row-major order of the loops over the whole grid.
RowMajor ==
    [k \in 1 .. rows * cols |-> <<(k - 1) \div cols, (k - 1) % cols>>]

\* Variant of the test that takes a flagged cell for a revealed one.
BlocksWinHiddenOnly(cell) == ~cell.isMine /\ cell.state = Hidden

\* checkWinCondition's test on one cell: the game is not won.
BlocksWin(cell) == ~cell.isMine /\ cell.state # Revealed

\* GameBoard.checkWinCondition(): the scan returns false at the first cell
\* that blocks the win.
RECURSIVE WinScan(_, _)
WinScan(cs, order) ==
    IF order = <<>> THEN TRUE
    ELSE IF BlocksWin(cs[Head(order)]) THEN FALSE
    ELSE WinScan(cs, Tail(order))

checkWinCondition(cs) == WinScan(cs, RowMajor)

\* GameBoard.revealAllMines()
revealAllMines(cs) ==
    [p \in DOMAIN cs |-> IF cs[p].isMine THEN Cell_reveal(cs[p]) ELSE cs[p]]

\* Variant of reset that leaves isFirstClick as it is.
resetKeepsFirstClick(config) ==
    [rows |-> config.rows, cols |-> config.cols, totalMines |-> config.mines,
     isFirstClick |-> isFirstClick,
     cells |-> initializeBoard(config.rows, config.cols)]

\* GameBoard.reset(config): the fields of the board after the call.
reset(config) ==
    [rows |-> config.rows, cols |-> config.cols, totalMines |-> config.mines,
     isFirstClick |-> TRUE,
     cells |-> initializeBoard(config.rows, config.cols)]

\* new GameBoard(config): the fields of the board constructed.
newGameBoard(config) ==
    [rows |-> config.rows, cols |-> config.cols, totalMines |-> config.mines,
     isFirstClick |-> TRUE,
     cells |-> initializeBoard(config.rows, config.cols)]

\* ---------------------------------------------------------------- actions

NoPosition == <<-1, -1>>

\* The number of cells flagged on the grid.
FlagCount == Cardinality({p \in Positions : cells[p].state = Flagged})

\* The record of a call: which operation, its argument, whether it ran the
\* mine placement, the values it returned and, for toggleFlag, the state the
\* cell was in when the call was made, for setDifficulty on a preset the
\* difficulty asked for, and for a reveal the deepest nesting of
\* revealCellRecursive calls.
Call(op) ==
    [op |-> op, position |-> NoPosition, placed |-> FALSE, success |-> FALSE,
     hitMine |-> FALSE, cellsRevealed |-> <<>>, flagged |-> FALSE, won |-> FALSE,
     was |-> Hidden, difficulty |-> -1, depth |-> 0]

\* new GameBoard(config)
Init ==
    \E cfg \in Configs :
        /\ rows = newGameBoard(cfg).rows
        /\ cols = newGameBoard(cfg).cols
        /\ totalMines = newGameBoard(cfg).totalMines
        /\ isFirstClick = newGameBoard(cfg).isFirstClick
        /\ cells = newGameBoard(cfg).cells
        /\ hung = FALSE
        /\ last = Call("new")
        /\ status = NotStarted
        /\ timeElapsed = 0
        /\ flagsPlaced = 0
        /\ remainingMines = 0
        /\ timer = "null"
        /\ intervals = 0
        /\ hiddenClicks = 0
        /\ minasColocadas = 0
        /\ pc = "idle"

\* GameBoard.revealCell(position)
RevealCell ==
    \E position \in Positions :
        /\ ~hung
        /\ UNCHANGED <<ctrlVars, loopVars>>
        /\ IF PlacesMines(cells, position) /\ PlacementOutcomes(cells, position) = {}
           THEN \* the placement loop never ends: the call does not return
                /\ hung' = TRUE
                /\ isFirstClick' = FALSE
                /\ UNCHANGED <<rows, cols, totalMines, cells, last>>
           ELSE \E S \in (IF PlacesMines(cells, position)
                          THEN PlacementOutcomes(cells, position) ELSE {{}}) :
                LET placed == IF PlacesMines(cells, position)
                              THEN placeMines(cells, S) ELSE cells
                    res == revealPlaced(placed, position)
                IN  /\ isFirstClick' = FALSE
                    /\ cells' = res.cells
                    /\ last' = [Call("revealCell") EXCEPT
                                   !.position = position,
                                   !.placed = PlacesMines(cells, position),
                                   !.success = res.success,
                                   !.hitMine = res.hitMine,
                                   !.cellsRevealed = res.cellsRevealed,
                                   !.depth = res.depth]
                    /\ UNCHANGED <<rows, cols, totalMines, hung>>

\* GameBoard.toggleFlag(position); the caller places at most MaxFlags flags.
ToggleFlag ==
    \E position \in Positions :
        /\ ~hung
        /\ UNCHANGED <<ctrlVars, loopVars>>
        /\ cells[position].state = Hidden => FlagCount < MaxFlags
        /\ cells' = toggleFlag(cells, position)
        /\ last' = [Call("toggleFlag") EXCEPT
                       !.position = position,
                       !.was = cells[position].state,
                       !.flagged = toggleFlagResult(cells, position)]
        /\ UNCHANGED <<rows, cols, totalMines, isFirstClick, hung>>

\* GameBoard.checkWinCondition()
CheckWinCondition ==
    /\ ~hung
    /\ UNCHANGED <<ctrlVars, loopVars>>
    /\ last' = [Call("checkWinCondition") EXCEPT !.won = checkWinCondition(cells)]
    /\ UNCHANGED boardVars

\* GameBoard.revealAllMines()
RevealAllMines ==
    /\ ~hung
    /\ UNCHANGED <<ctrlVars, loopVars>>
    /\ cells' = revealAllMines(cells)
    /\ last' = Call("revealAllMines")
    /\ UNCHANGED <<rows, cols, totalMines, isFirstClick, hung>>

\* GameBoard.reset(config)
Reset ==
    \E cfg \in Configs :
        /\ ~hung
        /\ UNCHANGED <<ctrlVars, loopVars>>
        /\ rows' = reset(cfg).rows
        /\ cols' = reset(cfg).cols
        /\ totalMines' = reset(cfg).totalMines
        /\ isFirstClick' = reset(cfg).isFirstClick
        /\ cells' = reset(cfg).cells
        /\ last' = Call("reset")
        /\ UNCHANGED hung

\* A direct call of the public GameBoard.placeMines(safePosition), as the
\* repository's testMineGeneration makes it: on a board just constructed.
PlaceMines ==
    \E safePosition \in Positions :
        /\ ~hung
        /\ UNCHANGED <<ctrlVars, loopVars>>
        /\ isFirstClick
        /\ cells = initializeBoard(rows, cols)
        /\ IF PlacementOutcomes(cells, safePosition) = {}
           THEN /\ hung' = TRUE
                /\ UNCHANGED <<rows, cols, totalMines, cells, isFirstClick, last>>
           ELSE \E S \in PlacementOutcomes(cells, safePosition) :
                /\ cells' = placeMines(cells, S)
                /\ last' = [Call("placeMines") EXCEPT
                               !.position = safePosition, !.placed = TRUE]
                /\ UNCHANGED <<rows, cols, totalMines, isFirstClick, hung>>

\* The board driven through revealCell, toggleFlag, checkWinCondition,
\* revealAllMines and reset.
Next ==
    \/ RevealCell
    \/ ToggleFlag
    \/ CheckWinCondition
    \/ RevealAllMines
    \/ Reset

Spec == Init /\ [][Next]_vars

\* The same, with direct calls of placeMines before the first click.
NextPlace ==
    \/ Next
    \/ PlaceMines

SpecPlace == Init /\ [][NextPlace]_vars

\* ----------------------------------------------- the placement loop, by pick

\* The configurations a board can be constructed with: the constructor does
\* not compare mines with rows * cols.
AnyConfigs ==
    { cfg \in [rows : 1 .. MaxCells, cols : 1 .. MaxCells, mines : 0 .. MaxMines] :
        cfg.rows * cfg.cols <= MaxCells }

\* Variant of the loop's test that asks for one mine more.
LoopContinuesOneMore(n) == n <= totalMines

\* placeMines' test: while (minasColocadas < this.totalMines)
LoopContinues(n) == n < totalMines

\* The first revealCell of a board calls placeMines(safePosition): the board
\* is as constructed and the counter is 0.
LoopInit ==
    \E cfg \in AnyConfigs :
        \E safePosition \in PositionsOf(cfg.rows, cfg.cols) :
            /\ rows = newGameBoard(cfg).rows
            /\ cols = newGameBoard(cfg).cols
            /\ totalMines = newGameBoard(cfg).totalMines
            /\ isFirstClick = FALSE
            /\ cells = newGameBoard(cfg).cells
            /\ hung = FALSE
            /\ last = [Call("placeMines") EXCEPT !.position = safePosition]
            /\ status = NotStarted
            /\ timeElapsed = 0
            /\ flagsPlaced = 0
            /\ remainingMines = 0
            /\ timer = "null"
            /\ intervals = 0
            /\ hiddenClicks = 0
            /\ minasColocadas = 0
            /\ pc = "loop"

\* One iteration of the loop in which the random pair is p: a pick of the
\* safe position or of a mine is skipped, any other is mined and counted.
PickAt(p) ==
    /\ pc = "loop"
    /\ LoopContinues(minasColocadas)
    /\ IF p \in Pickable(cells, last.position)
       THEN /\ cells' = [cells EXCEPT ![p] = Cell_setMine(@, TRUE)]
            /\ minasColocadas' = minasColocadas + 1
       ELSE UNCHANGED <<cells, minasColocadas>>
    /\ UNCHANGED <<rows, cols, totalMines, isFirstClick, hung, last, ctrlVars, pc>>

Pick == \E p \in Positions : PickAt(p)

\* The loop's test fails: the counts are calculated and placeMines returns.
LoopExit ==
    /\ pc = "loop"
    /\ ~LoopContinues(minasColocadas)
    /\ cells' = calculateAdjacentMines(cells)
    /\ pc' = "done"
    /\ last' = [last EXCEPT !.placed = TRUE]
    /\ UNCHANGED <<rows, cols, totalMines, isFirstClick, hung, ctrlVars, minasColocadas>>

LoopNext ==
    \/ Pick
    \/ LoopExit

\* The random choice is fair: a pair that keeps being possible is picked,
\* and the loop's test is made.
LoopFairness ==
    /\ \A p \in PositionsOf(MaxCells, MaxCells) : WF_vars(PickAt(p))
    /\ WF_vars(LoopExit)

LoopSpec == LoopInit /\ [][LoopNext]_vars /\ LoopFairness

\* --------------------------------------------------------- GameController

\* The configurations setDifficulty chooses from: the model's stand-ins for
\* the presets, each with at least one mine and fewer mines than cells.
Presets == {cfg \in Configs : cfg.mines >= 1}

\* Variant of handleCellClick's test that ignores clicks of a won game only.
ClickIgnoredWhenWon(st) == st = Won

\* handleCellClick's test at its entry: the click is ignored.
ClickIgnored(st) == st = Won \/ st = Lost

\* Variant of handleCellRightClick's test that ignores clicks of a won game
\* only.
RightClickIgnoredWhenWon(st) == st = Won

\* handleCellRightClick's test at its entry: the click is ignored.
RightClickIgnored(st) == st # InProgress /\ st # NotStarted

\* GameController.startTimer() on t = [timer, intervals]: a new interval is
\* set and its handle stored.
startTimer(t) == [timer |-> "set", intervals |-> t.intervals + 1]

\* Variant of stopTimer that forgets the handle without clearing the interval.
stopTimerWithoutClear(t) ==
    IF t.timer # "null"
    THEN [timer |-> "null", intervals |-> t.intervals]
    ELSE t

\* GameController.stopTimer() on t = [timer, intervals]
stopTimer(t) ==
    IF t.timer # "null"
    THEN [timer |-> "null", intervals |-> t.intervals - 1]
    ELSE t

\* The first lines of both click handlers on g = [status, timer, intervals]:
\* a game not started starts, with its timer.
StartOnFirstAction(g) ==
    IF g.status = NotStarted
    THEN [status |-> InProgress,
          timer |-> startTimer(g).timer, intervals |-> startTimer(g).intervals]
    ELSE g

\* Variant of gameOver(true)'s test that skips the mines of the first row.
FlagsAtWinBelowFirstRow(cell, p) ==
    cell.isMine /\ cell.state # Flagged /\ p[1] > 0

\* gameOver(true)'s test on the cell at p: the cell gets a flag.
FlagsAtWin(cell, p) == cell.isMine /\ cell.state # Flagged

\* gameOver(true)'s loop over the grid: every mine that is not Flagged is
\* toggled and counted; acc = [cells, flagsPlaced].
RECURSIVE FlagMines(_, _)
FlagMines(acc, order) ==
    IF order = <<>> THEN acc
    ELSE LET p == Head(order) IN
         IF FlagsAtWin(acc.cells[p], p)
         THEN FlagMines([cells |-> toggleFlag(acc.cells, p),
                         flagsPlaced |-> acc.flagsPlaced + 1], Tail(order))
         ELSE FlagMines(acc, Tail(order))

\* GameController.gameOver(isWin) on g = [status, timer, intervals, cells,
\* flagsPlaced, remainingMines].
gameOver(isWin, g) ==
    LET t == stopTimer(g) IN
    IF isWin
    THEN LET acc == FlagMines([cells |-> g.cells, flagsPlaced |-> g.flagsPlaced],
                              RowMajor)
         IN  [status |-> Won, timer |-> t.timer, intervals |-> t.intervals,
              cells |-> acc.cells, flagsPlaced |-> acc.flagsPlaced,
              remainingMines |-> 0]
    ELSE [status |-> Lost, timer |-> t.timer, intervals |-> t.intervals,
          cells |-> revealAllMines(g.cells), flagsPlaced |-> g.flagsPlaced,
          remainingMines |-> g.remainingMines]

\* The results revealCell(position) can return in the current state, one per
\* outcome of the placement when the call is the first: [cells, success,
\* hitMine, cellsRevealed]. Empty when the placement loop cannot end.
RevealOutcomes(position) ==
    {revealPlaced(IF PlacesMines(cells, position) THEN placeMines(cells, S) ELSE cells,
                  position) :
        S \in (IF PlacesMines(cells, position)
               THEN PlacementOutcomes(cells, position) ELSE {{}})}

\* Variant of the test before the win check: only a reveal of more than one
\* cell is followed by the check.
ChecksWinAfterFlood(res) ==
    res.success /\ ~res.hitMine /\ Len(res.cellsRevealed) > 1

\* handleCellClick's tests before its call of checkWinCondition.
ChecksWin(res) == res.success /\ ~res.hitMine

\* Variant of the test before gameOver(false) that never ends the game.
EndsLostNever(res) == FALSE

\* handleCellClick's tests before gameOver(false).
EndsLost(res) == res.success /\ res.hitMine

\* What handleCellClick does with the result of revealCell, on
\* g = [status, timer, intervals, cells, flagsPlaced, remainingMines].
AfterReveal(res, g) ==
    IF EndsLost(res) THEN gameOver(FALSE, g)
    ELSE IF ChecksWin(res) /\ checkWinCondition(res.cells) THEN gameOver(TRUE, g)
    ELSE g

\* new GameController(uiRenderer): setDifficulty on a new board, resetGame.
CtrlInit ==
    \E cfg \in Presets :
        /\ rows = newGameBoard(cfg).rows
        /\ cols = newGameBoard(cfg).cols
        /\ totalMines = newGameBoard(cfg).totalMines
        /\ isFirstClick = newGameBoard(cfg).isFirstClick
        /\ cells = newGameBoard(cfg).cells
        /\ hung = FALSE
        /\ last = Call("new")
        /\ status = NotStarted
        /\ timeElapsed = 0
        /\ flagsPlaced = 0
        /\ remainingMines = cfg.mines
        /\ timer = "null"
        /\ intervals = 0
        /\ hiddenClicks = 0
        /\ minasColocadas = 0
        /\ pc = "idle"

\* GameController.handleCellClick(position)
HandleCellClick ==
    \E position \in Positions :
        /\ ~hung
        /\ UNCHANGED loopVars
        /\ IF ClickIgnored(status)
           THEN /\ last' = [Call("handleCellClick") EXCEPT !.position = position]
                /\ UNCHANGED <<boardVars, ctrlVars>>
           ELSE LET started == StartOnFirstAction(
                                   [status |-> status, timer |-> timer,
                                    intervals |-> intervals])
                IN  IF RevealOutcomes(position) = {}
                    THEN \* revealCell never returns
                         /\ hung' = TRUE
                         /\ isFirstClick' = FALSE
                         /\ status' = started.status
                         /\ timer' = started.timer
                         /\ intervals' = started.intervals
                         /\ hiddenClicks' = hiddenClicks + 1
                         /\ UNCHANGED <<rows, cols, totalMines, cells, last,
                                        timeElapsed, flagsPlaced, remainingMines>>
                    ELSE \E res \in RevealOutcomes(position) :
                         LET g == AfterReveal(res,
                                      [status |-> started.status,
                                       timer |-> started.timer,
                                       intervals |-> started.intervals,
                                       cells |-> res.cells,
                                       flagsPlaced |-> flagsPlaced,
                                       remainingMines |-> remainingMines])
                         IN  /\ isFirstClick' = FALSE
                             /\ cells' = g.cells
                             /\ status' = g.status
                             /\ timer' = g.timer
                             /\ intervals' = g.intervals
                             /\ flagsPlaced' = g.flagsPlaced
                             /\ remainingMines' = g.remainingMines
                             /\ last' = [Call("handleCellClick") EXCEPT
                                            !.position = position,
                                            !.placed = PlacesMines(cells, position),
                                            !.success = res.success,
                                            !.hitMine = res.hitMine,
                                            !.cellsRevealed = res.cellsRevealed,
                                            !.depth = res.depth]
                             /\ hiddenClicks' =
                                    IF cells[position].state = Hidden
                                    THEN hiddenClicks + 1 ELSE hiddenClicks
                             /\ UNCHANGED <<rows, cols, totalMines, hung, timeElapsed>>

\* GameController.handleCellRightClick(position); the player keeps at most
\* MaxFlags flags and right-clicks Revealed cells at most MaxStrayClicks times.
HandleCellRightClick ==
    \E position \in Positions :
        /\ ~hung
        /\ UNCHANGED loopVars
        /\ IF RightClickIgnored(status)
           THEN /\ last' = [Call("handleCellRightClick") EXCEPT !.position = position]
                /\ UNCHANGED <<boardVars, ctrlVars>>
           ELSE LET started == StartOnFirstAction(
                                   [status |-> status, timer |-> timer,
                                    intervals |-> intervals])
                    isFlagged == toggleFlagResult(cells, position)
                    placedNow == IF isFlagged THEN flagsPlaced + 1 ELSE flagsPlaced - 1
                IN  /\ cells[position].state = Hidden => FlagCount < MaxFlags
                    /\ cells[position].state = Revealed =>
                           FlagCount - flagsPlaced < MaxStrayClicks
                    /\ status' = started.status
                    /\ timer' = started.timer
                    /\ intervals' = started.intervals
                    /\ cells' = toggleFlag(cells, position)
                    /\ flagsPlaced' = placedNow
                    /\ remainingMines' = totalMines - placedNow
                    /\ last' = [Call("handleCellRightClick") EXCEPT
                                   !.position = position,
                                   !.was = cells[position].state,
                                   !.flagged = isFlagged]
                    /\ UNCHANGED <<rows, cols, totalMines, isFirstClick, hung,
                                   timeElapsed, hiddenClicks>>

\* Variant of resetGame that leaves timeElapsed as it is.
resetGameKeepsTime(config) ==
    LET t == stopTimer([timer |-> timer, intervals |-> intervals]) IN
    [status |-> NotStarted, timeElapsed |-> timeElapsed, flagsPlaced |-> 0,
     remainingMines |-> config.mines, timer |-> t.timer, intervals |-> t.intervals]

\* GameController.resetGame(), after the board was reset to config: the
\* controller's fields.
resetGame(config) ==
    LET t == stopTimer([timer |-> timer, intervals |-> intervals]) IN
    [status |-> NotStarted, timeElapsed |-> 0, flagsPlaced |-> 0,
     remainingMines |-> config.mines, timer |-> t.timer, intervals |-> t.intervals]

\* The board is reset to config and the game with it.
ResetTo(config) ==
    /\ rows' = reset(config).rows
    /\ cols' = reset(config).cols
    /\ totalMines' = reset(config).totalMines
    /\ isFirstClick' = reset(config).isFirstClick
    /\ cells' = reset(config).cells
    /\ status' = resetGame(config).status
    /\ timeElapsed' = resetGame(config).timeElapsed
    /\ flagsPlaced' = resetGame(config).flagsPlaced
    /\ remainingMines' = resetGame(config).remainingMines
    /\ timer' = resetGame(config).timer
    /\ intervals' = resetGame(config).intervals
    /\ hiddenClicks' = 0
    /\ UNCHANGED hung

\* GameController.newGame()
NewGame ==
    /\ ~hung
    /\ UNCHANGED loopVars
    /\ ResetTo([rows |-> rows, cols |-> cols, mines |-> totalMines])
    /\ last' = Call("newGame")

\* GameController.setDifficulty(difficulty)
SetDifficulty ==
    \E cfg \in Presets :
        /\ ~hung
        /\ UNCHANGED loopVars
        /\ ResetTo(cfg)
        /\ last' = Call("setDifficulty")

\* Variant of the callback that writes the seconds to flagsPlaced.
onIntervalToFlagsPlaced(gs, seconds) == [gs EXCEPT !.flagsPlaced = seconds]

\* The body of the interval's callback on the game state gs = [status,
\* timeElapsed, flagsPlaced, remainingMines], seconds whole seconds after
\* startTime.
onInterval(gs, seconds) == [gs EXCEPT !.timeElapsed = seconds]

\* The callback of the interval set by startTimer: timeElapsed becomes the
\* whole seconds since the start, followed up to MaxTime.
Tick ==
    /\ ~hung
    /\ UNCHANGED loopVars
    /\ intervals > 0
    /\ \E seconds \in timeElapsed .. MaxTime :
          LET gs == onInterval([status |-> status, timeElapsed |-> timeElapsed,
                                flagsPlaced |-> flagsPlaced,
                                remainingMines |-> remainingMines], seconds)
          IN  /\ status' = gs.status
              /\ timeElapsed' = gs.timeElapsed
              /\ flagsPlaced' = gs.flagsPlaced
              /\ remainingMines' = gs.remainingMines
    /\ last' = Call("tick")
    /\ UNCHANGED <<boardVars, timer, intervals, hiddenClicks>>

\* The game played through the controller.
CtrlNext ==
    \/ HandleCellClick
    \/ HandleCellRightClick
    \/ NewGame
    \/ SetDifficulty
    \/ Tick

CtrlSpec == CtrlInit /\ [][CtrlNext]_vars

\* ------------------------------------------- the controller on the presets

\* The values setDifficulty is called with: the three of the enum and one
\* that is none of them.
Difficulties == {Beginner, Intermediate, Expert, Expert + 1}

\* Variant of the switch with Expert's rows and columns exchanged.
PresetConfigExpertTall(difficulty) ==
    CASE difficulty = Beginner     -> [rows |-> 9, cols |-> 9, mines |-> 10]
      [] difficulty = Intermediate -> [rows |-> 16, cols |-> 16, mines |-> 40]
      [] difficulty = Expert       -> [rows |-> 30, cols |-> 16, mines |-> 99]
      [] OTHER                     -> [rows |-> 9, cols |-> 9, mines |-> 10]

\* setDifficulty's switch: the configuration of a difficulty.
PresetConfig(difficulty) ==
    CASE difficulty = Beginner     -> [rows |-> 9, cols |-> 9, mines |-> 10]
      [] difficulty = Intermediate -> [rows |-> 16, cols |-> 16, mines |-> 40]
      [] difficulty = Expert       -> [rows |-> 16, cols |-> 30, mines |-> 99]
      [] OTHER                     -> [rows |-> 9, cols |-> 9, mines |-> 10]

\* new GameController(uiRenderer): setDifficulty(GameDifficulty.Beginner) on
\* a new board, resetGame.
PresetInit ==
    LET config == PresetConfig(Beginner) IN
    /\ rows = newGameBoard(config).rows
    /\ cols = newGameBoard(config).cols
    /\ totalMines = newGameBoard(config).totalMines
    /\ isFirstClick = newGameBoard(config).isFirstClick
    /\ cells = newGameBoard(config).cells
    /\ hung = FALSE
    /\ last = Call("new")
    /\ status = NotStarted
    /\ timeElapsed = 0
    /\ flagsPlaced = 0
    /\ remainingMines = config.mines
    /\ timer = "null"
    /\ intervals = 0
    /\ hiddenClicks = 0
    /\ minasColocadas = 0
    /\ pc = "idle"

\* GameController.setDifficulty(difficulty) with the presets of the source.
SetDifficultyPreset ==
    \E difficulty \in Difficulties :
        /\ ~hung
        /\ UNCHANGED loopVars
        /\ ResetTo(PresetConfig(difficulty))
        /\ last' = [Call("setDifficulty") EXCEPT !.difficulty = difficulty]

\* The cells the player right-clicks on a preset board: its corners.
PresetClicks == {<<0, 0>>, <<0, cols - 1>>, <<rows - 1, 0>>, <<rows - 1, cols - 1>>}

\* handleCellRightClick on a corner of a preset board.
PresetRightClick ==
    /\ HandleCellRightClick
    /\ last'.position \in PresetClicks

\* The controller on the boards of the presets, without left clicks (the
\* outcomes of a placement of 10 mines among 80 cells are not enumerated).
PresetNext ==
    \/ SetDifficultyPreset
    \/ PresetRightClick
    \/ NewGame
    \/ Tick

PresetSpec == PresetInit /\ [][PresetNext]_vars

\* ------------------------------------------------------------ a single Cell

\* The position of the cell the methods of Cell are called on.
TheCell == <<0, 0>>

\* new Cell(position, isMine): the cell alone, held as a grid of one cell.
CellInit ==
    \E isMine \in BOOLEAN :
        /\ rows = 1
        /\ cols = 1
        /\ totalMines = 0
        /\ isFirstClick = TRUE
        /\ cells = [p \in {TheCell} |-> Cell_setMine(NewCell, isMine)]
        /\ hung = FALSE
        /\ last = [Call("new Cell") EXCEPT !.position = TheCell]
        /\ status = NotStarted
        /\ timeElapsed = 0
        /\ flagsPlaced = 0
        /\ remainingMines = 0
        /\ timer = "null"
        /\ intervals = 0
        /\ hiddenClicks = 0
        /\ minasColocadas = 0
        /\ pc = "idle"

\* What a call of a method of Cell leaves alone.
CellFrame ==
    UNCHANGED <<rows, cols, totalMines, isFirstClick, hung, ctrlVars, loopVars>>

\* cell.reveal()
CellReveal ==
    /\ cells' = [cells EXCEPT ![TheCell] = Cell_reveal(@)]
    /\ last' = [Call("Cell.reveal") EXCEPT
                   !.position = TheCell,
                   !.was = cells[TheCell].state,
                   !.success = Cell_revealResult(cells[TheCell])]
    /\ CellFrame

\* cell.toggleFlag()
CellToggleFlag ==
    /\ cells' = [cells EXCEPT ![TheCell] = Cell_toggleFlag(@)]
    /\ last' = [Call("Cell.toggleFlag") EXCEPT
                   !.position = TheCell,
                   !.was = cells[TheCell].state,
                   !.flagged = Cell_toggleFlag(cells[TheCell]).state = Flagged]
    /\ CellFrame

\* cell.reset()
CellReset ==
    /\ cells' = [cells EXCEPT ![TheCell] = Cell_reset(@)]
    /\ last' = [Call("Cell.reset") EXCEPT
                   !.position = TheCell, !.was = cells[TheCell].state]
    /\ CellFrame

\* cell.setMine(value)
CellSetMine ==
    \E value \in BOOLEAN :
        /\ cells' = [cells EXCEPT ![TheCell] = Cell_setMine(@, value)]
        /\ last' = [Call("Cell.setMine") EXCEPT
                       !.position = TheCell, !.was = cells[TheCell].state]
        /\ CellFrame

\* cell.setAdjacentMines(count), with counts up to MaxCells
CellSetAdjacentMines ==
    \E count \in 0 .. MaxCells :
        /\ cells' = [cells EXCEPT ![TheCell] = Cell_setAdjacentMines(@, count)]
        /\ last' = [Call("Cell.setAdjacentMines") EXCEPT
                       !.position = TheCell, !.was = cells[TheCell].state]
        /\ CellFrame

CellNext ==
    \/ CellReveal
    \/ CellToggleFlag
    \/ CellReset
    \/ CellSetMine
    \/ CellSetAdjacentMines

CellSpec == CellInit /\ [][CellNext]_vars

\* ----------------------------------------------------------------- claims

\* The number of mines on the grid.
MineCount == Cardinality({p \in Positions : cells[p].isMine})

\* p and q are distinct cells at most one row and one column apart.
Adjacent(p, q) ==
    /\ p # q
    /\ p[1] - q[1] \in {-1, 0, 1}
    /\ p[2] - q[2] \in {-1, 0, 1}

\* The step is a revealCell call that returned; its argument is last'.position.
RevealStep == last'.op = "revealCell" /\ ~hung' /\ ~hung

\* The cells whose state is st on the grid cs.
InState(cs, st) == {p \in DOMAIN cs : cs[p].state = st}

\* C1: no cell is a mine before the first revealCell call, and in every state
\* after it exactly totalMines cells are mines (and the placement loop ended).
C1_MineCountInvariant ==
    /\ ~hung
    /\ isFirstClick => MineCount = 0
    /\ ~isFirstClick => MineCount = totalMines

\* Two mines are placed, one of them is flagged, and revealAllMines has run.
C1_Witness ==
    /\ ~isFirstClick
    /\ totalMines = 2
    /\ last.op = "revealAllMines"
    /\ \E p \in Positions : cells[p].isMine /\ cells[p].state = Flagged

\* C2: the revealCell call that places the mines never returns hitMine, and
\* its target is not a mine after the placement.
C2_FirstRevealSafe ==
    (last.op = "revealCell" /\ last.placed) =>
        /\ ~last.hitMine
        /\ ~cells[last.position].isMine

\* A first revealCell that revealed its target with every other cell mined.
C2_Witness ==
    /\ last.op = "revealCell"
    /\ last.placed
    /\ last.success
    /\ totalMines >= 1
    /\ totalMines = rows * cols - 1

\* C3: after every call of placeMines, made directly or by the first
\* revealCell, exactly totalMines cells are mines and safePosition is none.
C3_AfterPlaceMines ==
    (last.placed /\ ~hung) =>
        /\ MineCount = totalMines
        /\ ~cells[last.position].isMine

\* The least set of cells that holds those of R and every cell, Hidden on
\* the grid before, that is adjacent to one of its cells with adjacentMines 0
\* on the grid after.
RECURSIVE FloodClosure(_, _, _)
FloodClosure(before, after, R) ==
    LET more == {q \in DOMAIN before :
                    /\ before[q].state = Hidden
                    /\ \E p \in R : after[p].adjacentMines = 0 /\ Adjacent(p, q)}
    IN  IF more \subseteq R THEN R ELSE FloodClosure(before, after, R \cup more)

\* C4: revealCell on a Hidden cell without a mine reveals exactly the Hidden
\* cells reachable from it through Hidden cells with adjacentMines 0 and
\* changes no other cell's state; with adjacentMines >= 1 on the clicked cell
\* only that cell is revealed.
C4_FloodFillRegion ==
    [][(/\ RevealStep
        /\ cells[last'.position].state = Hidden
        /\ ~cells'[last'.position].isMine) =>
           LET region == FloodClosure(cells, cells', {last'.position}) IN
           /\ \A p \in Positions :
                 cells'[p].state = IF p \in region THEN Revealed ELSE cells[p].state
           /\ cells'[last'.position].adjacentMines >= 1 =>
                 InState(cells', Revealed) \ InState(cells, Revealed) = {last'.position}
      ]_vars

\* A flood fill revealed a zero cell and a numbered cell on its border and
\* left a cell without a mine hidden.
C4_Witness ==
    /\ last.op = "revealCell"
    /\ last.success
    /\ ~last.hitMine
    /\ cells[last.position].adjacentMines = 0
    /\ \E i \in 1 .. Len(last.cellsRevealed) :
          cells[last.cellsRevealed[i]].adjacentMines >= 1
    /\ \E q \in Positions : ~cells[q].isMine /\ cells[q].state = Hidden

\* C5: a revealCell call turns a mine Revealed only when the mine is the
\* clicked cell and the call returns hitMine; a call that returns
\* hitMine = false reveals no mine.
C5_FloodNeverRevealsMine ==
    [][RevealStep =>
          \A p \in Positions :
              (cells'[p].isMine /\ cells'[p].state = Revealed /\ cells[p].state # Revealed)
                  => (last'.hitMine /\ p = last'.position)
      ]_vars

\* A flood fill that revealed several cells on a board with mines, none of
\* them revealed.
C5_Witness ==
    /\ last.op = "revealCell"
    /\ ~last.hitMine
    /\ Len(last.cellsRevealed) >= 2
    /\ totalMines >= 1
    /\ \A p \in Positions : cells[p].isMine => cells[p].state = Hidden

\* C6: a revealCell call leaves every Flagged cell Flagged, reports none of
\* them in cellsRevealed, and reveals a cell other than its target only next
\* to a cell with adjacentMines 0 that the same call revealed.
C6_FlaggedUntouched ==
    [][RevealStep =>
          /\ \A p \in Positions : cells[p].state = Flagged => cells'[p].state = Flagged
          /\ \A i \in 1 .. Len(last'.cellsRevealed) :
                cells[last'.cellsRevealed[i]].state # Flagged
          /\ \A q \in (InState(cells', Revealed) \ InState(cells, Revealed)) :
                q # last'.position =>
                    \E p \in Positions :
                        /\ Adjacent(p, q)
                        /\ cells[p].state = Hidden
                        /\ cells'[p].state = Revealed
                        /\ cells'[p].adjacentMines = 0
      ]_vars

\* A flood fill revealed a zero cell next to a flagged cell, which is still
\* flagged.
C6_Witness ==
    /\ last.op = "revealCell"
    /\ last.success
    /\ \E f \in Positions :
          /\ cells[f].state = Flagged
          /\ \E i \in 1 .. Len(last.cellsRevealed) :
                /\ Adjacent(last.cellsRevealed[i], f)
                /\ cells[last.cellsRevealed[i]].adjacentMines = 0

\* C7: checkWinCondition returns true exactly when every cell without a mine
\* is Revealed, whatever the state of the mines, and changes nothing.
C7_WinCondition ==
    [][last'.op = "checkWinCondition" =>
          /\ last'.won =
                (\A p \in Positions : ~cells[p].isMine => cells[p].state = Revealed)
          /\ UNCHANGED boardVars
      ]_vars

\* checkWinCondition returned true with a mine flagged and a mine hidden.
C7_Witness ==
    /\ last.op = "checkWinCondition"
    /\ last.won
    /\ \E p \in Positions : cells[p].isMine /\ cells[p].state = Flagged
    /\ \E p \in Positions : cells[p].isMine /\ cells[p].state = Hidden

\* C8: after revealAllMines every mine is Revealed, whatever its state
\* before, and the cells without a mine are unchanged.
C8_AllMinesRevealed ==
    [][last'.op = "revealAllMines" =>
          \A p \in Positions :
              IF cells[p].isMine
              THEN cells'[p].state = Revealed
              ELSE cells'[p] = cells[p]
      ]_vars

C10_RevealNotHidden ==
    [][(RevealStep /\ cells[last'.position].state # Hidden) =>
          /\ ~last'.success
          /\ ~last'.hitMine
          /\ last'.cellsRevealed = <<>>
          /\ \A p \in Positions : cells'[p].state = cells[p].state
          /\ ~isFirstClick => UNCHANGED boardVars
      ]_vars

\* A later revealCell on a cell that is already Revealed failed.
C10_Witness ==
    /\ last.op = "revealCell"
    /\ ~last.placed
    /\ ~last.success
    /\ cells[last.position].state = Revealed

\* The mines and the counts of the grid cs, without the cells' states.
Layout(cs) == [p \in DOMAIN cs |-> <<cs[p].isMine, cs[p].adjacentMines>>]

\* C11: revealCell on a Hidden mine sets that cell to Revealed, returns
\* success, hitMine and cellsRevealed = [position], and changes no other cell.
C11_RevealMine ==
    [][(/\ RevealStep
        /\ cells[last'.position].state = Hidden
        /\ cells'[last'.position].isMine) =>
           /\ last'.success
           /\ last'.hitMine
           /\ last'.cellsRevealed = <<last'.position>>
           /\ cells'[last'.position] = [cells[last'.position] EXCEPT !.state = Revealed]
           /\ \A p \in Positions \ {last'.position} : cells'[p] = cells[p]
      ]_vars

\* A mine was hit while a neighbour without a mine is still hidden.
C11_Witness ==
    /\ last.op = "revealCell"
    /\ last.hitMine
    /\ \E q \in Positions :
          /\ Adjacent(q, last.position)
          /\ ~cells[q].isMine
          /\ cells[q].state = Hidden

\* C12: toggleFlag returns true exactly when the cell is Flagged after the
\* call; Hidden becomes Flagged, Flagged becomes Hidden, Revealed stays; no
\* other cell, no mine, no count and not isFirstClick changes.
C12_ToggleFlag ==
    [][last'.op = "toggleFlag" =>
          LET pos == last'.position IN
          /\ last'.flagged = (cells'[pos].state = Flagged)
          /\ cells'[pos].state =
                CASE cells[pos].state = Hidden   -> Flagged
                  [] cells[pos].state = Flagged  -> Hidden
                  [] cells[pos].state = Revealed -> Revealed
          /\ \A p \in Positions \ {pos} : cells'[p] = cells[p]
          /\ Layout(cells') = Layout(cells)
          /\ UNCHANGED <<rows, cols, totalMines, isFirstClick, hung>>
      ]_vars

\* toggleFlag was refused on a Revealed cell of a board not yet clicked free
\* of its hidden cells.
C12_Witness ==
    /\ last.op = "toggleFlag"
    /\ ~last.flagged
    /\ cells[last.position].state = Revealed
    /\ \E p \in Positions : cells[p].state = Flagged

\* C13: a toggleFlag call right after a toggleFlag call on the same cell puts
\* the cell back in the state it had before the first and changes nothing
\* else; when that state was Hidden, the second call returns false.
C13_ToggleTwice ==
    [][(/\ last.op = "toggleFlag"
        /\ last'.op = "toggleFlag"
        /\ last'.position = last.position) =>
           /\ cells'[last.position].state = last.was
           /\ \A p \in Positions \ {last.position} : cells'[p] = cells[p]
           /\ Layout(cells') = Layout(cells)
           /\ UNCHANGED <<rows, cols, totalMines, isFirstClick, hung>>
           /\ last.was = Hidden => ~last'.flagged
      ]_vars

\* A toggleFlag call has taken back the flag of a cell on a placed board.
C13_Witness ==
    /\ last.op = "toggleFlag"
    /\ last.was = Flagged
    /\ ~last.flagged
    /\ cells[last.position].state = Hidden
    /\ ~isFirstClick

\* C14: once the mines are placed, every cell without a mine counts the
\* mines among its neighbours on the grid, a number in 0 .. 8, and every mine
\* has adjacentMines 0.
C14_AdjacencyInvariant ==
    ~isFirstClick =>
        \A p \in Positions :
            IF cells[p].isMine
            THEN cells[p].adjacentMines = 0
            ELSE /\ cells[p].adjacentMines =
                       Cardinality({q \in Positions : Adjacent(p, q) /\ cells[q].isMine})
                 /\ cells[p].adjacentMines \in 0 .. 8

\* A placed board with a cell next to two mines and a cell next to one.
C14_Witness ==
    /\ ~isFirstClick
    /\ \E p \in Positions : ~cells[p].isMine /\ cells[p].adjacentMines = 2
    /\ \E p \in Positions : ~cells[p].isMine /\ cells[p].adjacentMines = 1

\* The cell of a board just constructed.
FreshCell == [isMine |-> FALSE, adjacentMines |-> 0, state |-> Hidden]

\* C15: a constructed board and a board after reset(config) hold rows x cols
\* cells, Hidden, without mine, adjacentMines 0, the first click pending; the
\* next revealCell places totalMines mines, none at its target.
C15_ResetIsFresh ==
    /\ [](last.op \in {"new", "reset"} =>
             /\ DOMAIN cells = (0 .. rows - 1) \X (0 .. cols - 1)
             /\ \A p \in DOMAIN cells : cells[p] = FreshCell
             /\ isFirstClick
             /\ ~hung
             /\ [rows |-> rows, cols |-> cols, mines |-> totalMines] \in Configs)
    /\ [][(RevealStep /\ isFirstClick) =>
             /\ Cardinality({p \in Positions : cells'[p].isMine}) = totalMines
             /\ ~cells'[last'.position].isMine
             /\ ~isFirstClick'
         ]_vars

\* reset has run, to a board of 2 x 2 cells with 2 mines to place.
C15_Witness ==
    /\ last.op = "reset"
    /\ rows = 2
    /\ cols = 2
    /\ totalMines = 2

\* C16: the first revealCell call places the mines, whatever the state of
\* its target, and clears the first click; no later revealCell call and no
\* other call but reset changes a mine, a count or the first click.
C16_PlacementOnce ==
    [][/\ (RevealStep /\ isFirstClick) =>
             /\ Cardinality({p \in Positions : cells'[p].isMine}) = totalMines
             /\ ~cells'[last'.position].isMine
             /\ ~isFirstClick'
             /\ cells[last'.position].state = Flagged => ~last'.success
       /\ (RevealStep /\ ~isFirstClick) =>
             /\ Layout(cells') = Layout(cells)
             /\ ~isFirstClick'
       /\ last'.op \in {"toggleFlag", "checkWinCondition", "revealAllMines"} =>
             /\ Layout(cells') = Layout(cells)
             /\ isFirstClick' = isFirstClick
      ]_vars

\* The first revealCell call was made on a flagged cell: it failed and the
\* mines are placed.
C16_Witness ==
    /\ last.op = "revealCell"
    /\ last.placed
    /\ ~last.success
    /\ cells[last.position].state = Flagged
    /\ totalMines >= 1
    /\ MineCount = totalMines

\* A call of one of the two click handlers was made in this step.
ClickOps == {"handleCellClick", "handleCellRightClick"}

\* A call that starts a game over was made in this step.
RestartOps == {"newGame", "setDifficulty"}

\* No cell of the board is Revealed: no reveal has succeeded in this game.
NothingRevealed == \A p \in Positions : cells[p].state # Revealed

\* C17: the first click is always safe: the first reveal of a game that
\* succeeds, flags placed before it or not, does not hit a mine, and the game
\* is not lost by it.
C17_FirstClickSafe ==
    [][(/\ last'.op = "handleCellClick"
        /\ last'.success
        /\ NothingRevealed) =>
           /\ ~last'.hitMine
           /\ status' # Lost
      ]_vars

\* C18: the status moves only NotStarted -> InProgress -> Won or Lost. A
\* click handler changes it only in a game that is NotStarted or InProgress,
\* sets InProgress first and ends in InProgress, Won or Lost; Won and Lost
\* are left only by newGame or setDifficulty, to NotStarted; the status
\* becomes Lost exactly when a left click reveals a mine and Won exactly when
\* a left click's successful reveal of a cell without a mine leaves
\* checkWinCondition true.
C18_StatusTransitions ==
    [][/\ status' # status =>
             \/ /\ last'.op \in RestartOps
                /\ status' = NotStarted
             \/ /\ last'.op \in ClickOps
                /\ status \in {NotStarted, InProgress}
                /\ StartOnFirstAction([status |-> status, timer |-> timer,
                                       intervals |-> intervals]).status = InProgress
                /\ status' \in {InProgress, Won, Lost}
       /\ (status \in {Won, Lost} /\ status' # status) =>
             /\ last'.op \in RestartOps
             /\ status' = NotStarted
       /\ (status # Lost /\ status' = Lost) <=>
             /\ last'.op = "handleCellClick"
             /\ last'.success
             /\ last'.hitMine
       /\ (status # Won /\ status' = Won) <=>
             /\ last'.op = "handleCellClick"
             /\ last'.success
             /\ ~last'.hitMine
             /\ checkWinCondition(cells')
      ]_vars

\* A left click that was not the first of its game won it.
C18_Witness ==
    /\ status = Won
    /\ last.op = "handleCellClick"
    /\ last.success
    /\ ~last.hitMine
    /\ ~last.placed

\* C19: while the status is Won or Lost, the click handlers change no cell,
\* nor status, flagsPlaced or remainingMines; only newGame or setDifficulty
\* changes them.
C19_TerminalFrozen ==
    [][(status = Won \/ status = Lost) =>
          /\ last'.op \in ClickOps =>
                UNCHANGED <<cells, status, flagsPlaced, remainingMines>>
          /\ ~(UNCHANGED <<cells, status, flagsPlaced, remainingMines>>) =>
                last'.op \in RestartOps
      ]_vars

\* A right click arrived on a Hidden cell of a lost game and the cell is
\* still Hidden.
C19_Witness ==
    /\ status = Lost
    /\ last.op = "handleCellRightClick"
    /\ cells[last.position].state = Hidden

\* C20: while the game is NotStarted or InProgress, flagsPlaced is the number
\* of Flagged cells, so never negative, and remainingMines is the mine count
\* minus that number.
C20_MineCounter ==
    status \in {NotStarted, InProgress} =>
        /\ flagsPlaced = FlagCount
        /\ flagsPlaced >= 0
        /\ remainingMines = totalMines - FlagCount

\* C21: placeMines returns, under a fair choice of cells, whenever
\* 0 <= totalMines < rows * cols, also with totalMines = rows * cols - 1,
\* where every cell but the safe one is then a mine; with
\* totalMines >= rows * cols it never returns.
C21_PlacementTerminates ==
    /\ (pc = "loop" /\ totalMines < rows * cols) ~> (pc = "done")
    /\ [](totalMines >= rows * cols => pc # "done")
    /\ []((pc = "done" /\ totalMines = rows * cols - 1) =>
             \A p \in Positions : cells[p].isMine <=> p # last.position)

\* placeMines returned on a board of three cells or more with one mine fewer
\* than cells.
C21_Witness ==
    /\ pc = "done"
    /\ totalMines = rows * cols - 1
    /\ rows * cols >= 3
    /\ MineCount = totalMines

\* C22: setDifficulty configures Beginner as 9 x 9 with 10 mines,
\* Intermediate as 16 x 16 with 40, Expert as 16 rows x 30 columns with 99,
\* any other value as Beginner; each has fewer mines than cells; after the
\* call the board is fresh and the game NotStarted, with flagsPlaced 0 and
\* remainingMines the mine count of the preset.
C22_Presets ==
    /\ [](/\ PresetConfig(Beginner) = [rows |-> 9, cols |-> 9, mines |-> 10]
          /\ PresetConfig(Intermediate) = [rows |-> 16, cols |-> 16, mines |-> 40]
          /\ PresetConfig(Expert) = [rows |-> 16, cols |-> 30, mines |-> 99]
          /\ \A d \in Difficulties :
                /\ d \notin {Beginner, Intermediate, Expert} =>
                      PresetConfig(d) = PresetConfig(Beginner)
                /\ PresetConfig(d).mines < PresetConfig(d).rows * PresetConfig(d).cols)
    /\ [][last'.op = "setDifficulty" =>
             /\ rows' = PresetConfig(last'.difficulty).rows
             /\ cols' = PresetConfig(last'.difficulty).cols
             /\ totalMines' = PresetConfig(last'.difficulty).mines
             /\ <<rows', cols', totalMines'>> \in
                    {<<9, 9, 10>>, <<16, 16, 40>>, <<16, 30, 99>>}
             /\ DOMAIN cells' = (0 .. rows' - 1) \X (0 .. cols' - 1)
             /\ \A p \in DOMAIN cells' : cells'[p] = FreshCell
             /\ isFirstClick'
             /\ status' = NotStarted
             /\ flagsPlaced' = 0
             /\ remainingMines' = totalMines'
         ]_vars

\* setDifficulty(Expert) was called: the board has 16 rows and 30 columns.
C22_Witness ==
    /\ last.op = "setDifficulty"
    /\ last.difficulty = Expert
    /\ rows = 16
    /\ cols = 30
    /\ remainingMines = 99

\* C23: a revealCell call that returns success without hitMine returns in
\* cellsRevealed exactly the cells that went from Hidden to Revealed in the
\* call, each once, at least one, the clicked position first.
C23_CellsRevealed ==
    [][(RevealStep /\ last'.success /\ ~last'.hitMine) =>
          LET collected == last'.cellsRevealed IN
          /\ {collected[i] : i \in 1 .. Len(collected)} =
                 {p \in Positions : cells[p].state = Hidden /\ cells'[p].state = Revealed}
          /\ \A i, j \in 1 .. Len(collected) : collected[i] = collected[j] => i = j
          /\ Len(collected) >= 1
          /\ collected[1] = last'.position
      ]_vars

\* A flood fill returned three cells or more, next to a flag it left alone.
C23_Witness ==
    /\ last.op = "revealCell"
    /\ last.success
    /\ ~last.hitMine
    /\ Len(last.cellsRevealed) >= 3
    /\ \E p \in Positions : cells[p].state = Flagged /\ ~cells[p].isMine

\* C24: after the first revealCell call, no revealCell, toggleFlag,
\* revealAllMines or checkWinCondition call changes a cell's isMine or
\* adjacentMines, nor the board's dimensions or mine count: only visibility
\* changes until reset.
C24_LayoutFixed ==
    [][(/\ ~isFirstClick
        /\ last'.op \in {"revealCell", "toggleFlag", "revealAllMines",
                         "checkWinCondition"}) =>
           /\ DOMAIN cells' = DOMAIN cells
           /\ \A p \in Positions :
                 /\ cells'[p].isMine = cells[p].isMine
                 /\ cells'[p].adjacentMines = cells[p].adjacentMines
           /\ UNCHANGED <<rows, cols, totalMines, isFirstClick>>
      ]_vars

\* revealAllMines ran on a placed board: a mine is Revealed next to a cell
\* that counts it.
C24_Witness ==
    /\ ~isFirstClick
    /\ last.op = "revealAllMines"
    /\ \E p, q \in Positions :
          /\ cells[p].isMine
          /\ cells[p].state = Revealed
          /\ Adjacent(p, q)
          /\ ~cells[q].isMine
          /\ cells[q].adjacentMines >= 1

\* C25: whenever the status is Won, every cell without a mine is Revealed,
\* every mine is Flagged, none is Revealed, and remainingMines is 0.
C25_WonBoard ==
    status = Won =>
        /\ \A p \in Positions :
              IF cells[p].isMine THEN cells[p].state = Flagged
                                 ELSE cells[p].state = Revealed
        /\ remainingMines = 0

\* A left click won a game with two mines, and both count as flagged.
C25_Witness ==
    /\ status = Won
    /\ totalMines = 2
    /\ MineCount = 2
    /\ flagsPlaced = 2
    /\ last.op = "handleCellClick"

\* C26: whenever the status is InProgress, no mine is Revealed and
\* checkWinCondition is false: a decided game is never left in progress.
C26_InProgressUndecided ==
    status = InProgress =>
        /\ \A p \in Positions : ~(cells[p].isMine /\ cells[p].state = Revealed)
        /\ ~checkWinCondition(cells)

\* A left click revealed a cell of a game that goes on: a cell without a
\* mine is still to reveal.
C26_Witness ==
    /\ status = InProgress
    /\ last.op = "handleCellClick"
    /\ last.success
    /\ ~last.hitMine
    /\ MineCount = totalMines
    /\ \E p \in Positions : ~cells[p].isMine /\ cells[p].state # Revealed

\* C27: the interval timer is live exactly while the status is InProgress and
\* there is at most one interval; it is set when a click takes the game out
\* of NotStarted and cleared when the game ends or is started over; and
\* timeElapsed changes only by a tick of a game in progress or back to 0 by
\* newGame or setDifficulty.
C27_TimerLive ==
    /\ [](/\ intervals \in {0, 1}
          /\ intervals = 1 <=> status = InProgress
          /\ timer # "null" <=> status = InProgress)
    /\ [][/\ intervals' > intervals =>
                /\ status = NotStarted
                /\ status' = InProgress
                /\ last'.op \in ClickOps
          /\ (status = NotStarted /\ status' # NotStarted) => last'.op \in ClickOps
          /\ intervals' < intervals =>
                /\ status = InProgress
                /\ \/ last'.op = "handleCellClick" /\ (status' = Won \/ status' = Lost)
                   \/ last'.op \in RestartOps /\ status' = NotStarted
          /\ timeElapsed' # timeElapsed =>
                \/ last'.op = "tick" /\ status = InProgress /\ status' = InProgress
                \/ last'.op \in RestartOps /\ timeElapsed' = 0
         ]_vars

\* A second has passed in a game with a flag, and a left click left the game
\* in progress, its one interval live.
C27_Witness ==
    /\ status = InProgress
    /\ intervals = 1
    /\ timeElapsed = 1
    /\ last.op = "handleCellClick"
    /\ FlagCount >= 1

\* C28: a tick of the timer changes timeElapsed only: no cell, not the
\* status, flagsPlaced or remainingMines, nor anything else of the board.
C28_TickFrame ==
    [][last'.op = "tick" =>
          UNCHANGED <<rows, cols, totalMines, cells, isFirstClick, status,
                      flagsPlaced, remainingMines, timer, intervals>>
      ]_vars

\* A tick ran in a game in progress whose mines are placed and which holds
\* a flag.
C28_Witness ==
    /\ last.op = "tick"
    /\ timeElapsed = 1
    /\ FlagCount >= 1
    /\ ~isFirstClick
    /\ status = InProgress

\* C29 as stated: in every revealCell call the flood fill reveals each cell
\* at most once and the calls of revealCellRecursive never nest deeper than
\* rows * cols.
C29_DepthWithinCells ==
    [][RevealStep =>
          /\ \A i, j \in 1 .. Len(last'.cellsRevealed) :
                last'.cellsRevealed[i] = last'.cellsRevealed[j] => i = j
          /\ last'.depth <= rows * cols
      ]_vars

\* C29, amended: every revealCell call returns, its flood fill reveals each
\* cell at most once, and the calls of revealCellRecursive nest at most one
\* deeper than the number of cells revealed (the innermost call returns at
\* its entry test): never deeper than rows * cols - totalMines + 1, which is
\* rows * cols + 1 on a board without mines and at most rows * cols otherwise.
C29_FloodBounded ==
    [][RevealStep =>
          /\ \A i, j \in 1 .. Len(last'.cellsRevealed) :
                last'.cellsRevealed[i] = last'.cellsRevealed[j] => i = j
          /\ (last'.success /\ ~last'.hitMine) =>
                /\ last'.depth >= 1
                /\ last'.depth <= Len(last'.cellsRevealed) + 1
          /\ last'.depth <= rows * cols - totalMines + 1
          /\ totalMines >= 1 => last'.depth <= rows * cols
      ]_vars

\* A flood fill revealed every cell of a board of two cells or more and its
\* calls nested rows * cols + 1 deep.
C29_Witness ==
    /\ last.op = "revealCell"
    /\ last.success
    /\ rows * cols >= 2
    /\ Len(last.cellsRevealed) = rows * cols
    /\ last.depth = rows * cols + 1

\* The number of Revealed cells of the grid cs.
RevealedCount(cs) == Cardinality(InState(cs, Revealed))

\* C30: a left click on a Hidden cell of a game that is NotStarted or
\* InProgress ends the game or reveals at least one more cell; a game not yet
\* ended has had no more such clicks than it has Revealed cells, which are
\* fewer than its cells without a mine, so the game is Won or Lost after at
\* most rows * cols such clicks.
C30_ClicksBounded ==
    /\ [][(/\ last'.op = "handleCellClick"
           /\ status \in {NotStarted, InProgress}
           /\ cells[last'.position].state = Hidden) =>
              /\ hiddenClicks' = hiddenClicks + 1
              /\ \/ status' \in {Won, Lost}
                 \/ RevealedCount(cells') > RevealedCount(cells)
         ]_vars
    /\ [](/\ hiddenClicks <= rows * cols
          /\ status \in {NotStarted, InProgress} =>
                /\ hiddenClicks <= RevealedCount(cells)
                /\ RevealedCount(cells) < rows * cols - totalMines
                /\ hiddenClicks < rows * cols)

\* A game was won by its third left click on a Hidden cell, on a board of
\* four cells with one mine.
C30_Witness ==
    /\ status = Won
    /\ hiddenClicks = 3
    /\ rows * cols = 4
    /\ totalMines = 1

\* C31: the board does not gate a finished game: once a mine is Revealed
\* (a revealCell call returned hitMine), revealCell on a Hidden cell without
\* a mine still returns success, without hitMine, and reveals it, and
\* toggleFlag on a Hidden cell still flags it.
C31_BoardNotGated ==
    [][MineRevealed(cells) =>
          /\ (/\ RevealStep
              /\ cells[last'.position].state = Hidden
              /\ ~cells[last'.position].isMine) =>
                 /\ last'.success
                 /\ ~last'.hitMine
                 /\ cells'[last'.position].state = Revealed
          /\ (/\ last'.op = "toggleFlag"
              /\ cells[last'.position].state = Hidden) =>
                 /\ last'.flagged
                 /\ cells'[last'.position].state = Flagged
      ]_vars

\* After a mine was hit, revealCell revealed a cell without a mine, next to
\* a flag that is still in place.
C31_Witness ==
    /\ MineRevealed(cells)
    /\ last.op = "revealCell"
    /\ last.success
    /\ ~last.hitMine
    /\ \E p \in Positions : cells[p].state = Flagged
    /\ \E p \in Positions : cells[p].isMine /\ cells[p].state = Hidden

C33_NewGameFresh ==
    [][last'.op = "newGame" =>
          /\ UNCHANGED <<rows, cols, totalMines>>
          /\ DOMAIN cells' = Positions
          /\ \A p \in Positions : cells'[p] = FreshCell
          /\ isFirstClick'
          /\ status' = NotStarted
          /\ flagsPlaced' = 0
          /\ timeElapsed' = 0
          /\ remainingMines' = totalMines
          /\ timer' = "null"
          /\ intervals' = 0
      ]_vars

\* newGame was called on a board of 2 x 2 cells with 2 mines.
C33_Witness ==
    /\ last.op = "newGame"
    /\ rows = 2
    /\ cols = 2
    /\ totalMines = 2
    /\ remainingMines = 2
    /\ status = NotStarted

\* The cells of a sequence of positions.
Range(seq) == {seq[i] : i \in 1 .. Len(seq)}

\* C34: for every position of the board, the neighbours countAdjacentMines
\* inspects and revealCellRecursive recurses into are cells of the board next
\* to the position, all of them and no other: the windows are clamped at the
\* edges and do not wrap. revealCell reads and writes no cell outside the
\* grid: the grid keeps its domain and cellsRevealed lies within it.
C34_WithinGrid ==
    /\ [](/\ DOMAIN cells = Positions
          /\ \A p \in Positions :
                /\ Range(CountWindow(p[1], p[2])) = {q \in Positions : Adjacent(p, q)}
                /\ Range(RevealWindow(p[1], p[2])) = {q \in Positions : Adjacent(p, q)}
                /\ \A i \in 1 .. Len(LoopWindow(p[1], p[2])) :
                      /\ LoopWindow(p[1], p[2])[i][1] \in 0 .. rows - 1
                      /\ LoopWindow(p[1], p[2])[i][2] \in 0 .. cols - 1)
    /\ [][RevealStep =>
             /\ last'.position \in Positions
             /\ DOMAIN cells' = Positions
             /\ Range(last'.cellsRevealed) \subseteq Positions
             /\ \A p \in Positions :
                   cells'[p].adjacentMines =
                       Cardinality({q \in Positions : Adjacent(p, q) /\ cells'[q].isMine
                                                      /\ ~cells'[p].isMine})
         ]_vars

\* A flood fill started in a corner of a board of three columns and stopped
\* before the far edge: the cell there is still Hidden and has no mine.
C34_Witness ==
    /\ last.op = "revealCell"
    /\ last.success
    /\ ~last.hitMine
    /\ cols >= 3
    /\ last.position = <<0, 0>>
    /\ cells[<<0, cols - 1>>].state = Hidden
    /\ ~cells[<<0, cols - 1>>].isMine

\* The cells of the grid next to v, by row and within a row by column.
NeighboursInOrder(v) == SelectSeq(RowMajor, LAMBDA q : Adjacent(v, q))

\* The depth-first preorder of a flood fill, computed with a stack of cells
\* to visit: the cell on top is visited if it was Hidden and is not yet in
\* the order, and a cell with adjacentMines 0 puts its neighbours on top,
\* the first of them uppermost.
RECURSIVE PreorderFrom(_, _, _, _)
PreorderFrom(before, after, stack, order) ==
    IF stack = <<>> THEN order
    ELSE LET v == Head(stack) IN
         IF before[v].state # Hidden \/ v \in Range(order)
         THEN PreorderFrom(before, after, Tail(stack), order)
         ELSE PreorderFrom(before, after,
                  (IF after[v].adjacentMines = 0 THEN NeighboursInOrder(v) ELSE <<>>)
                      \o Tail(stack),
                  Append(order, v))

\* C35: cellsRevealed is the depth-first preorder of the flood fill in which
\* the neighbours of a cell with adjacentMines 0 are visited by row, row - 1
\* to row + 1, and within a row by column, col - 1 to col + 1.
C35_PreorderOfFlood ==
    [][(RevealStep /\ last'.success /\ ~last'.hitMine) =>
          last'.cellsRevealed = PreorderFrom(cells, cells', <<last'.position>>, <<>>)
      ]_vars

\* A flood fill revealed the four cells of a board of 2 x 2, the cell below
\* the clicked one after the cell to its right.
C35_Witness ==
    /\ last.op = "revealCell"
    /\ rows = 2
    /\ cols = 2
    /\ last.cellsRevealed = <<<<0, 0>>, <<0, 1>>, <<1, 0>>, <<1, 1>>>>

\* C36: Cell.reveal returns false and changes nothing on a Flagged cell;
\* on any other cell, one already Revealed included, it sets the state to
\* Revealed, changes nothing else and returns true. Cell.reset sets the
\* state Hidden, isMine false and adjacentMines 0, whatever the cell was.
C36_CellRevealReset ==
    [][/\ last'.op = "Cell.reveal" =>
             IF cells[TheCell].state = Flagged
             THEN /\ ~last'.success
                  /\ cells'[TheCell] = cells[TheCell]
             ELSE /\ last'.success
                  /\ cells'[TheCell].state = Revealed
                  /\ cells'[TheCell].isMine = cells[TheCell].isMine
                  /\ cells'[TheCell].adjacentMines = cells[TheCell].adjacentMines
       /\ last'.op = "Cell.reset" =>
             /\ cells'[TheCell].state = Hidden
             /\ cells'[TheCell].isMine = FALSE
             /\ cells'[TheCell].adjacentMines = 0
      ]_vars

\* reveal() was called on a cell already Revealed, a mine with a count, and
\* returned true.
C36_Witness ==
    /\ last.op = "Cell.reveal"
    /\ last.was = Revealed
    /\ last.success
    /\ cells[TheCell].isMine
    /\ cells[TheCell].adjacentMines = 2

====
